---- MODULE Spec2Model ----
(***************************************************************************)
(* pdf-anonymizer: the anonymize endpoint (src/pdf_anonymizer/app.py) and  *)
(* AnonymizationService (src/service/anonymize_service.py) as a state      *)
(* machine.  One request is followed from the endpoint through input       *)
(* resolution, redaction, the three output producers, the cleanup of the   *)
(* finally block and the endpoint's answer.  The document engine, the      *)
(* HTTP fetch and the blob store are collaborators: each call either       *)
(* succeeds or raises, chosen nondeterministically.                        *)
(*                                                                         *)
(* Text is a sequence of code points; a code point is written as a string  *)
(* token ("e", "OMEGA", ...).  A page is one line of glyphs.               *)
(***************************************************************************)
EXTENDS Integers, Sequences, FiniteSets, TLC

VARIABLES
    \* ---- the request (app.py:14-44)
    sensitive_content,  \* list of terms, each a sequence of code points
    pdf_content,        \* "None" or "b64"
    pdf_file,           \* "None", "http", "ref" (bucket/key) or "noslash"
    output_format,      \* list of format names
    result_deliver,     \* "response" or "url"
    req_process_id,     \* the caller's process_id, or "None"
    fetch_status,       \* the status code the server behind an http pdf_file answers
    \* ---- the document behind the input, and the engine
    source_pages,       \* page texts of the document the input designates
    engine_overlap,     \* TRUE: the engine removes every glyph a region touches
    \* ---- locals of anonymize_pdf (anonymize_service.py:36-70)
    pc,                 \* position of the request
    process_id,         \* the service's process_id
    doc,                \* "None", "open", "closed" or "error" (an error dict)
    temp_file,          \* "None" or "staged"
    pages,              \* the handle's pages: sequences of glyph cells
    expanded,           \* expanded_sensitive_content, in list order
    marks,              \* redaction regions marked so far
    result,             \* the result dict
    \* ---- the world outside the request
    acquired,           \* per resource: how often it was created
    released,           \* per resource: how often it was released
    release_log,        \* resources in the order they were released
    store,              \* object names present in the upload bucket
    uploads,            \* outcome of each upload attempted, by format
    response,           \* the endpoint's answer
    \* ---- results of the pure text functions
    case_variations,    \* _generate_case_variations of each term
    md_content,         \* the Markdown text, each character with its origin
    \* ---- the store's reads, and the steps of _anonymize_document
    reads,              \* the (bucket, key) pairs asked of the blob store
    at_page,            \* the page the loop of _anonymize_document is at
    redact_log,         \* the searches, marks and commits of the loop, in order
    rerun,              \* pages and marks of a second run on the redacted handle
    \* ---- requests running at the same time
    bucket_exists,      \* whether the upload bucket exists
    requests            \* per concurrent request: its locals

vars == <<sensitive_content, pdf_content, pdf_file, output_format, result_deliver,
          req_process_id, source_pages, engine_overlap, pc, process_id, doc,
          temp_file, pages, expanded, marks, result, acquired, released,
          release_log, store, uploads, response, case_variations, md_content,
          reads, at_page, redact_log, rerun, bucket_exists, requests>>

-----------------------------------------------------------------------------
(* Bounds of the model *)

MaxPages == 2
MaxFormats == 2
MaxTerms == 2
MaxTermLen == 2
MaxTextLen == 2
GlyphWidth == 10
MaxRequests == 2

-----------------------------------------------------------------------------
(* Code points and their case mappings *)

\* Code points above the ASCII range (ord(c) > 127): a cased pair, the three
\* sigmas, sharp s (upper case "SS") and the caseless euro sign.
NonAsciiChars == {"omega", "OMEGA", "sigma", "fsigma", "SIGMA", "eszett", "euro"}

\* A test that takes every code point for a variable position.
IsAnyChar(c) == c = c

\* ord(c) > 127
IsNonAscii(c) == c \in NonAsciiChars

\* Upper/lower pairs of the ASCII letters the model uses.
AsciiLower(c) ==
    CASE c = "E" -> "e" [] c = "X" -> "x" [] c = "S" -> "s" [] c = "R" -> "r"
      [] c = "D" -> "d" [] c = "A" -> "a" [] c = "C" -> "c" [] c = "T" -> "t"
      [] c = "P" -> "p" [] OTHER -> c

AsciiUpper(c) ==
    CASE c = "e" -> "E" [] c = "x" -> "X" [] c = "s" -> "S" [] c = "r" -> "R"
      [] c = "d" -> "D" [] c = "a" -> "A" [] c = "c" -> "C" [] c = "t" -> "T"
      [] c = "p" -> "P" [] c = "g" -> "G" [] OTHER -> c

\* str.upper() of a one-character string: a string, not always of length 1.
StrUpper(c) ==
    CASE c = "omega" -> <<"OMEGA">>
      [] c \in {"sigma", "fsigma"} -> <<"SIGMA">>
      [] c = "eszett" -> <<"S", "S">>
      [] IsNonAscii(c) -> <<c>>
      [] OTHER -> <<AsciiUpper(c)>>

\* str.lower() of a one-character string.
StrLower(c) ==
    CASE c = "OMEGA" -> <<"omega">>
      [] c = "SIGMA" -> <<"sigma">>
      [] IsNonAscii(c) -> <<c>>
      [] OTHER -> <<AsciiLower(c)>>

\* The engine's search folds ASCII case and nothing else.
AsciiFold(c) == IF IsNonAscii(c) THEN c ELSE AsciiLower(c)

\* re.IGNORECASE on str patterns: simple Unicode case folding.
CaseFold(c) ==
    CASE c = "OMEGA" -> "omega"
      [] c \in {"SIGMA", "fsigma"} -> "sigma"
      [] IsNonAscii(c) -> c
      [] OTHER -> AsciiLower(c)

-----------------------------------------------------------------------------
(* Sequence helpers *)

Range(s) == {s[i] : i \in DOMAIN s}

RECURSIVE Join(_)
\* ''.join(chars)
Join(chars) == IF chars = <<>> THEN <<>> ELSE Head(chars) \o Join(Tail(chars))

RECURSIVE Pow2(_)
Pow2(k) == IF k = 0 THEN 1 ELSE 2 * Pow2(k - 1)

SeqsUpTo(S, n) == UNION {[1..m -> S] : m \in 0..n}

NonEmptySeqsUpTo(S, n) == UNION {[1..m -> S] : m \in 1..n}

RECURSIVE SetToSeq(_)
\* list(a_set): the elements once each, in an order the set decides.
SetToSeq(S) ==
    IF S = {} THEN <<>>
    ELSE LET x == CHOOSE y \in S : TRUE IN <<x>> \o SetToSeq(S \ {x})

-----------------------------------------------------------------------------
(* CaseVariationExpander: anonymize_service.py:347-408 *)

\* non_ascii_positions: the indexes of the code points above 127, ascending.
NonAsciiPositions(word) ==
    SelectSeq([p \in 1..Len(word) |-> p], LAMBDA p : IsNonAscii(word[p]))

\* A bit test with its branches swapped: upper case where the bit is 0.
BitClear(i, bit_pos) == (i \div Pow2(bit_pos)) % 2 = 0

\* (i >> bit_pos) & 1, bit_pos counted from 0.
BitSet(i, bit_pos) == (i \div Pow2(bit_pos)) % 2 = 1

\* The variation of index i: chars = list(word), then every non-ASCII position
\* is overwritten by its upper or lower case as the matching bit of i says.
Variation(word, positions, i) ==
    LET chars == [p \in 1..Len(word) |->
                    IF \E b \in 1..Len(positions) : positions[b] = p
                    THEN LET bp == CHOOSE q \in 1..Len(positions) : positions[q] = p
                         IN  IF BitSet(i, bp - 1) THEN StrUpper(word[p])
                                                 ELSE StrLower(word[p])
                    ELSE <<word[p]>>]
    IN  Join(chars)

\* _generate_case_variations: [word] without non-ASCII positions, else the
\* 2^n variations in index order.
GenerateCaseVariations(word) ==
    LET positions == NonAsciiPositions(word)
    IN  IF positions = <<>> THEN <<word>>
        ELSE [n \in 1..Pow2(Len(positions)) |-> Variation(word, positions, n - 1)]

\* The set built by _expand_non_ascii_variations before it is listed.
ExpandedSet(words) ==
    Range(words) \cup
    UNION {Range(GenerateCaseVariations(words[n])) :
             n \in {m \in DOMAIN words : \E c \in Range(words[m]) : IsNonAscii(c)}}

\* _expand_non_ascii_variations: list(result).
ExpandNonAsciiVariations(words) == SetToSeq(ExpandedSet(words))

-----------------------------------------------------------------------------
(* The document engine, as the service uses it.  A page is a line of glyph *)
(* cells; a cell holds a code point, or Blank once its glyph was removed.  *)

Blank == " "

RedactPadding == 2

\* The folding a matcher applies to a code point before it compares: the
\* engine's search ("ascii") or re.IGNORECASE ("ignorecase").
Fold(c, matcher) == IF matcher = "ascii" THEN AsciiFold(c) ELSE CaseFold(c)

\* Whether `word` stands at cell i of `text` for the matcher.
MatchAt(text, word, i, matcher) ==
    /\ i + Len(word) - 1 <= Len(text)
    /\ \A k \in 1..Len(word) : Fold(text[i + k - 1], matcher) = Fold(word[k], matcher)

RECURSIVE HitsFrom(_, _, _)
\* The starts of the hits of a search, left to right, a hit never overlapping
\* the one before it.
HitsFrom(text, word, i) ==
    IF word = <<>> \/ i > Len(text) THEN {}
    ELSE IF MatchAt(text, word, i, "ascii")
         THEN {i} \cup HitsFrom(text, word, i + Len(word))
         ELSE HitsFrom(text, word, i + 1)

\* The rectangle around cells i .. i+n-1 of the line.
HitRect(i, n) ==
    [x0 |-> (i - 1) * GlyphWidth, y0 |-> 0,
     x1 |-> (i + n - 1) * GlyphWidth, y1 |-> GlyphWidth]

\* page.search_for(word): one rectangle per hit; ASCII case is folded, code
\* points above ASCII are matched exactly.
SearchFor(text, word) == {HitRect(i, Len(word)) : i \in HitsFrom(text, word, 1)}

\* A rectangle left as the search gave it.
NoPadRect(rect) == rect

\* rect.x0 -= 2; rect.y0 -= 2; rect.x1 += 2; rect.y1 += 2
PadRect(rect) ==
    [x0 |-> rect.x0 - RedactPadding, y0 |-> rect.y0 - RedactPadding,
     x1 |-> rect.x1 + RedactPadding, y1 |-> rect.y1 + RedactPadding]

\* page.add_redact_annot(rect, fill=(0, 0, 0)) for every hit of every word.
PageMarks(page_num, text, words) ==
    {[page |-> page_num, rect |-> PadRect(r), fill |-> <<0, 0, 0>>] :
        r \in UNION {SearchFor(text, words[n]) : n \in DOMAIN words}}

\* Whether a region takes the glyph of cell p with it: the glyphs it covers
\* always, the glyphs it only touches when the engine removes on overlap.
GlyphRemoved(p, rect, overlap) ==
    LET gx0 == (p - 1) * GlyphWidth
        gx1 == p * GlyphWidth
    IN  IF overlap
        THEN gx0 < rect.x1 /\ gx1 > rect.x0 /\ 0 < rect.y1 /\ GlyphWidth > rect.y0
        ELSE rect.x0 <= gx0 /\ gx1 <= rect.x1 /\ rect.y0 <= 0 /\ GlyphWidth <= rect.y1

\* A commit that leaves every glyph where it is.
KeepGlyphs(text, page_marks, overlap) == text

\* page.apply_redactions(): the glyphs under the page's marks are removed.
ApplyRedactions(text, page_marks, overlap) ==
    [p \in 1..Len(text) |->
        IF \E m \in page_marks : GlyphRemoved(p, m.rect, overlap)
        THEN Blank ELSE text[p]]

\* The pages after the loop of _anonymize_document has handled pages 1..upto.
RedactedPages(doc_pages, words, upto, overlap) ==
    [n \in 1..Len(doc_pages) |->
        IF n <= upto
        THEN ApplyRedactions(doc_pages[n], PageMarks(n - 1, doc_pages[n], words), overlap)
        ELSE doc_pages[n]]

\* The marks added while pages 1..upto were handled.
DocumentMarks(doc_pages, words, upto) ==
    UNION {PageMarks(n - 1, doc_pages[n], words) : n \in 1..upto}

\* page.get_text(): the cells of the line, a removed glyph read as a gap.
GetText(cells) == cells

-----------------------------------------------------------------------------
(* The Markdown producer's text pass: anonymize_service.py:300-309.  Every *)
(* character carries its origin (o): "text" for page text, "marker" for   *)
(* what a substitution wrote, "layout" for headings and separators.  The  *)
(* origin is a history mark; no step of the pass reads it.                *)

Marker == <<"[", "R", "E", "D", "A", "C", "T", "E", "D", "]">>

Tagged(chars, origin) == [i \in 1..Len(chars) |-> [c |-> chars[i], o |-> origin]]

Untag(items) == [i \in 1..Len(items) |-> items[i].c]

RECURSIVE ReSubFrom(_, _, _)
\* The scan of re.sub: leftmost match first, the scan resumed behind it.
ReSubFrom(word, items, i) ==
    IF word = <<>>
    THEN IF i > Len(items) THEN Tagged(Marker, "marker")
         ELSE Tagged(Marker, "marker") \o <<items[i]>> \o ReSubFrom(word, items, i + 1)
    ELSE IF i > Len(items) THEN <<>>
    ELSE IF MatchAt(Untag(items), word, i, "ignorecase")
         THEN Tagged(Marker, "marker") \o ReSubFrom(word, items, i + Len(word))
         ELSE <<items[i]>> \o ReSubFrom(word, items, i + 1)

\* A substitution that stops behind the first match (count=1).
ReSubOnce(word, items) ==
    LET starts == {i \in 1..Len(items) : MatchAt(Untag(items), word, i, "ignorecase")}
    IN  IF word = <<>> \/ starts = {} THEN items
        ELSE LET i == CHOOSE j \in starts : \A m \in starts : j <= m
             IN  SubSeq(items, 1, i - 1) \o Tagged(Marker, "marker")
                 \o SubSeq(items, i + Len(word), Len(items))

\* re.sub(re.escape(word), "[REDACTED]", text, flags=re.IGNORECASE)
ReSub(word, items) == ReSubFrom(word, items, 1)

RECURSIVE SubstituteAll(_, _)
\* for word in sensitive_content: text = re.sub(...), in list order.
SubstituteAll(words, items) ==
    IF words = <<>> THEN items
    ELSE SubstituteAll(Tail(words), ReSub(Head(words), items))

\* f"## Page {page_num + 1}\n\n"
PageHeading(page_num) ==
    <<"#", "#", " ", "P", "a", "g", "e", " ", ToString(page_num + 1), "\n", "\n">>

\* One page's share of md_content: heading, substituted text, blank line.
MarkdownSection(page_num, cells, words) ==
    Tagged(PageHeading(page_num), "layout")
    \o SubstituteAll(words, Tagged(GetText(cells), "text"))
    \o Tagged(<<"\n", "\n">>, "layout")

\* md_content after the loop over the pages.
MarkdownContent(doc_pages, words) ==
    Join([n \in 1..Len(doc_pages) |-> MarkdownSection(n - 1, doc_pages[n], words)])

-----------------------------------------------------------------------------
(* Values of the request and of the result dict *)

Formats == {"pdf", "img", "md"}

\* The inputs a request can name: (pdf_content, pdf_file).
Sources ==
    {<<"b64", "None">>, <<"None", "http">>, <<"None", "ref">>, <<"None", "deep">>,
     <<"None", "noslash">>, <<"b64", "http">>, <<"None", "None">>}

\* The text of a pdf_file that is no http(s) URL: "bucket/key", "bucket/dir/key"
\* and "bucket".
ObjectPath(file) ==
    CASE file = "ref" -> <<"b", "/", "k">>
      [] file = "deep" -> <<"b", "/", "d", "/", "k">>
      [] OTHER -> <<"b">>

RECURSIVE SplitAll(_)
\* chars.split('/'): cut at every separator.
SplitAll(chars) ==
    LET cuts == {i \in DOMAIN chars : chars[i] = "/"}
    IN  IF cuts = {} THEN <<chars>>
        ELSE LET i == CHOOSE j \in cuts : \A m \in cuts : j <= m
             IN  <<SubSeq(chars, 1, i - 1)>> \o SplitAll(SubSeq(chars, i + 1, Len(chars)))

\* chars.split('/', 1): cut at the first separator only.
SplitOnce(chars) ==
    LET cuts == {i \in DOMAIN chars : chars[i] = "/"}
    IN  IF cuts = {} THEN <<chars>>
        ELSE LET i == CHOOSE j \in cuts : \A m \in cuts : j <= m
             IN  <<SubSeq(chars, 1, i - 1), SubSeq(chars, i + 1, Len(chars))>>

\* The status codes a fetch can come back with: the one the loader accepts,
\* another success (2xx) status, and a failure.
HttpStatuses == {200, 203, 404}

UploadLocation == "anonymized-pdfs"

\* The temporary resources of a request and its document handle.
ResInput == <<"staged_input", 0>>
ResDoc == <<"document", 0>>
ResOutputPdf == <<"output_pdf", 0>>
ResTempMd == <<"temp_md", 0>>
ResImage(page_num) == <<"page_image", page_num>>

Resources ==
    {ResInput, ResDoc, ResOutputPdf, ResTempMd} \cup {ResImage(n) : n \in 0..(MaxPages - 1)}

\* counts with one more creation (or release) of each resource of rs
Bump(counts, rs) == [r \in Resources |-> IF r \in rs THEN counts[r] + 1 ELSE counts[r]]

EmptyDict == [k \in {} |-> "None"]

\* a.update(b)
DictUpdate(a, b) == b @@ a

\* {"error": message}
ErrorDict(message) == "error" :> message

\* What anonymize_pdf hands its caller when an exception leaves it: the
\* exception, not a dict.
Raised(cause) == "raised" :> cause

\* The exceptions the except clause of anonymize_pdf turns into an error
\* dict: one raised by the document engine, or any other (an OSError of a
\* temporary file, a TypeError of a term that is not a string).
ServiceExceptions == {"engine error", "unexpected error"}

\* base64.b64encode(data).decode("utf-8")
B64(data) == [kind |-> "b64", data |-> data]

\* f"{upload_location}/{object_name}"
Reference(object_name) == [kind |-> "ref", path |-> <<UploadLocation, "/">> \o object_name]

\* f"Error: {str(e)}"
ErrorMarker(cause) == [kind |-> "error", text |-> <<"Error: ", cause>>]

\* {"md": md_content}: the text as it is.
MdText(chars) == [kind |-> "text", text |-> chars]

\* doc.save(): the bytes of the handle's pages as they are now.
PdfBytes(doc_pages) == [type |-> "pdf", pages |-> doc_pages]

\* page.get_pixmap() saved as PNG.
PngBytes(cells) == [type |-> "png", cells |-> cells]

\* The storage keys: f"{process_id}/result.pdf", f"{process_id}/result_page_{page_num}.png",
\* f"{process_id}/result.md".
PdfObjectName(pid) == <<pid, "/", "result.pdf">>
\* A key that counts the pages from 1.
ImageObjectNameFromOne(pid, page_num) ==
    <<pid, "/", "result_page_", ToString(page_num + 1), ".png">>
ImageObjectName(pid, page_num) == <<pid, "/", "result_page_", ToString(page_num), ".png">>
MdObjectName(pid) == <<pid, "/", "result.md">>

\* What an upload can do: create_bucket_if_not_exists (or the client's
\* construction) raises, put_object raises, or the object is written.
UploadOutcomes == {"ok", "bucket_error", "put_error"}

\* anonymize_pdf.__defaults__: the defaults of pdf_content, pdf_file,
\* output_format, result_deliver and process_id.
AnonymizePdfDefaults == <<"None", "None", <<"pdf">>, "response", "None">>

\* str(uuid.uuid4())
GeneratedProcessId == "uuid-1"

NoResponse == [status |-> 0, body |-> EmptyDict]

-----------------------------------------------------------------------------
(* The documents and terms the requests of Spec carry *)

SampleDocs == {"omega", "sigma"}

SampleTerms(kind) ==
    IF kind = "omega" THEN << <<"OMEGA">> >> ELSE << <<"sigma">> >>

SamplePage(kind, n) ==
    IF kind = "omega"
    THEN (IF n % 2 = 1 THEN <<"x", "OMEGA", "x">> ELSE <<"omega", "e">>)
    ELSE (IF n % 2 = 1 THEN <<"fsigma", "x">> ELSE <<"SIGMA">>)

\* No second run was made.
NoRerun == [pages |-> <<>>, marks |-> {}]

\* The state every specification starts the service's locals in.
InitLocals ==
    /\ process_id = "None"
    /\ doc = "None"
    /\ temp_file = "None"
    /\ pages = <<>>
    /\ expanded = <<>>
    /\ marks = {}
    /\ result = EmptyDict
    /\ acquired = [r \in Resources |-> 0]
    /\ released = [r \in Resources |-> 0]
    /\ release_log = <<>>
    /\ store = EmptyDict
    /\ uploads = [pdf |-> <<>>, img |-> <<>>, md |-> <<>>]
    /\ response = NoResponse
    /\ case_variations = <<>>
    /\ md_content = <<>>
    /\ reads = <<>>
    /\ at_page = 0
    /\ redact_log = <<>>
    /\ rerun = NoRerun
    /\ bucket_exists = TRUE
    /\ requests = <<>>

Init ==
    /\ \E kind \in SampleDocs, n \in 1..MaxPages :
          /\ sensitive_content = SampleTerms(kind)
          /\ source_pages = [i \in 1..n |-> SamplePage(kind, i)]
    /\ \E src \in Sources : pdf_content = src[1] /\ pdf_file = src[2]
    /\ output_format \in NonEmptySeqsUpTo(Formats, MaxFormats)
    /\ result_deliver \in {"response", "url"}
    /\ req_process_id \in {"None", "client-1"}
    /\ fetch_status \in (IF pdf_content = "None" /\ pdf_file = "http" THEN HttpStatuses ELSE {200})
    /\ engine_overlap \in BOOLEAN
    /\ pc = "endpoint"
    /\ InitLocals

request_vars ==
    <<sensitive_content, pdf_content, pdf_file, output_format, result_deliver,
      req_process_id, fetch_status, source_pages, engine_overlap>>

text_vars == <<case_variations>>

redact_vars == <<at_page, redact_log, rerun>>

worker_vars == <<bucket_exists, requests>>

-----------------------------------------------------------------------------
(* The endpoint's validation: app.py:13-54 *)

\* The first validation that fails, or "ok".
ValidationError ==
    IF sensitive_content = <<>>
    THEN "sensitive_content must be a non-empty list"
    ELSE IF pdf_content = "None" /\ pdf_file = "None"
    THEN "Either pdf_content or pdf_file must be provided"
    ELSE IF output_format = <<>>
    THEN "output_format must be a non-empty list"
    ELSE IF \E i \in DOMAIN output_format : output_format[i] \notin Formats
    THEN "Invalid output format"
    ELSE IF result_deliver \notin {"url", "response"}
    THEN "result_deliver must be either 'url' or 'response'"
    ELSE "ok"

\* anonymize_pdf_endpoint up to the call of the service: a request that fails
\* a validation is answered 400 at once.
EndpointValidate ==
    /\ pc = "endpoint"
    /\ IF ValidationError = "ok"
       THEN /\ pc' = "load"
            /\ UNCHANGED response
       ELSE /\ pc' = "done"
            /\ response' = [status |-> 400, body |-> ErrorDict(ValidationError)]
    /\ UNCHANGED <<request_vars, text_vars, redact_vars, worker_vars, reads,
                   process_id, doc, temp_file, pages, expanded,
                   marks, result, acquired, released, release_log, store, uploads,
                   md_content>>

-----------------------------------------------------------------------------
(* InputResolver: anonymize_service.py:39-47 and 73-147 *)

\* What the collaborators of the chosen loader can do.
LoadOutcomes ==
    IF pdf_content # "None"
    THEN {"decode_error", "open_error", "ok"}                    \* _load_from_base64
    ELSE IF pdf_file = "None" THEN {"no_input"}
    ELSE IF pdf_file = "http"                                    \* requests.get
    THEN {"fetch_error"} \cup (IF fetch_status = 200 THEN {"open_error", "ok"}
                                                     ELSE {"bad_status"})
    ELSE IF Len(SplitOnce(ObjectPath(pdf_file))) # 2 THEN {"invalid_path"}
    ELSE {"get_error", "stream_error", "open_error", "ok"}       \* MinIO object

\* Whether the loader called get_object of the blob store.
AsksStore(outcome) ==
    /\ pdf_content = "None"
    /\ pdf_file \notin {"None", "http"}
    /\ outcome # "invalid_path"

\* Whether the loader had created the staged file when the outcome was decided.
StagedBy(outcome) == outcome \in {"open_error", "stream_error", "ok"}

\* Only _load_from_base64 unlinks the staged file when the engine cannot open it.
UnlinkedByLoader(outcome) == outcome = "open_error" /\ pdf_content # "None"

\* The message of the error dict, or of the exception, of a failed load.
LoadError(outcome) ==
    CASE outcome = "decode_error" -> "Invalid base64"
      [] outcome = "open_error" /\ pdf_content # "None" -> "Failed to open PDF document"
      [] outcome = "no_input" -> "Either pdf_content or pdf_file must be provided"
      [] outcome = "invalid_path" -> "Invalid MinIO object path"
      [] outcome \in {"get_error", "stream_error"} -> "Error retrieving PDF from MinIO"
      [] outcome = "open_error" /\ pdf_file # "http" -> "Error retrieving PDF from MinIO"
      [] outcome = "bad_status" -> "Failed to download PDF from URL"
      [] OTHER -> "Error downloading PDF"

\* anonymize_pdf from its entry to the return of line 47: the process_id is
\* generated if absent, the input is staged and opened.  A decode error leaves
\* as an exception (doc stays None); every other failure comes back as an
\* error dict in doc, with temp_file None.
LoadPdfDocument ==
    /\ pc = "load"
    /\ process_id' = IF req_process_id = "None" THEN GeneratedProcessId ELSE req_process_id
    /\ \E outcome \in LoadOutcomes :
          /\ acquired' = Bump(acquired, (IF StagedBy(outcome) THEN {ResInput} ELSE {})
                                        \cup (IF outcome = "ok" THEN {ResDoc} ELSE {}))
          /\ released' = Bump(released, IF UnlinkedByLoader(outcome) THEN {ResInput} ELSE {})
          /\ release_log' = IF UnlinkedByLoader(outcome)
                            THEN Append(release_log, ResInput) ELSE release_log
          /\ reads' = IF AsksStore(outcome)
                      THEN Append(reads, SplitOnce(ObjectPath(pdf_file))) ELSE reads
          /\ IF outcome = "ok"
             THEN /\ doc' = "open"
                  /\ temp_file' = "staged"
                  /\ pages' = source_pages
                  /\ pc' = "anonymize"
                  /\ UNCHANGED result
             ELSE /\ doc' = IF outcome = "decode_error" THEN "None" ELSE "error"
                  /\ temp_file' = "None"
                  /\ result' = ErrorDict(LoadError(outcome))
                  /\ pc' = "cleanup"
                  /\ UNCHANGED pages
    /\ UNCHANGED <<request_vars, text_vars, redact_vars, worker_vars,
                   expanded, marks, store, uploads, response,
                   md_content>>

-----------------------------------------------------------------------------
(* RedactionApplier: anonymize_service.py:50 and 150-177 *)

\* _anonymize_document: the terms are expanded, then page after page every
\* hit of every pattern is padded and marked and the page's redactions are
\* applied.  The engine may raise while it applies the redactions of a page:
\* the pages before it are redacted, and the exception leaves anonymize_pdf
\* through its except clause.
AnonymizeDocument ==
    /\ pc = "anonymize"
    /\ expanded' = ExpandNonAsciiVariations(sensitive_content)
    /\ \E upto \in 0..Len(pages) :
          /\ pages' = RedactedPages(pages, expanded', upto, engine_overlap)
          /\ IF upto = Len(pages)
             THEN /\ marks' = DocumentMarks(pages, expanded', upto)
                  /\ pc' = "pdf"
                  /\ UNCHANGED result
             ELSE /\ marks' = DocumentMarks(pages, expanded', upto + 1)
                  /\ result' \in {ErrorDict(cause) : cause \in ServiceExceptions}
                  /\ pc' = "cleanup"
    /\ UNCHANGED <<request_vars, text_vars, redact_vars, worker_vars, reads,
                   process_id, doc, temp_file, acquired, released,
                   release_log, store, uploads, response, md_content>>

-----------------------------------------------------------------------------
(* OutputFormatter and DeliveryRouter: anonymize_service.py:52-64, 180-345 *)

Requested(fmt) == \E i \in DOMAIN output_format : output_format[i] = fmt

\* minio_service.put_object(upload_location, object_name, f, ...)
PutObject(objects, object_name, data) == (object_name :> data) @@ objects

\* _generate_pdf_output, when "pdf" is requested.  doc.save may raise, with
\* the output file already created.  In url mode a failed upload is written
\* to result["error"]; the output file is unlinked in both modes.
GeneratePdfOutput ==
    /\ pc = "pdf"
    /\ IF ~Requested("pdf")
       THEN /\ pc' = "img"
            /\ UNCHANGED <<result, acquired, released, release_log, store, uploads>>
       ELSE \E saved \in BOOLEAN, outcome \in UploadOutcomes :
              /\ acquired' = Bump(acquired, {ResOutputPdf})
              /\ IF ~saved
                 THEN /\ outcome = "ok"
                      /\ result' \in {ErrorDict(cause) : cause \in ServiceExceptions}
                      /\ pc' = "cleanup"
                      /\ UNCHANGED <<released, release_log, store, uploads>>
                 ELSE /\ released' = Bump(released, {ResOutputPdf})
                      /\ release_log' = Append(release_log, ResOutputPdf)
                      /\ pc' = "img"
                      /\ IF result_deliver = "response"
                         THEN /\ outcome = "ok"
                              /\ result' = DictUpdate(result, "pdf" :> B64(PdfBytes(pages)))
                              /\ UNCHANGED <<store, uploads>>
                         ELSE /\ uploads' = [uploads EXCEPT !.pdf = Append(@, outcome)]
                              /\ IF outcome = "ok"
                                 THEN /\ store' = PutObject(store, PdfObjectName(process_id),
                                                            PdfBytes(pages))
                                      /\ result' = DictUpdate(result,
                                            "pdf" :> Reference(PdfObjectName(process_id)))
                                 ELSE /\ result' = DictUpdate(result,
                                            ErrorDict("Failed to upload PDF to storage"))
                                      /\ UNCHANGED store
    /\ UNCHANGED <<request_vars, text_vars, redact_vars, worker_vars, reads,
                   process_id, doc, temp_file, pages, expanded,
                   marks, response, md_content>>

\* A producer that puts each new image in front of the list.
PrependImage(images, entry) == <<entry>> \o images

\* images.append(...)
AppendImage(images, entry) == Append(images, entry)

\* The entry of one page whose loop body ran to its end.
ImageEntry(page_num, cells, pid, deliver, outcome) ==
    IF deliver = "response" THEN B64(PngBytes(cells))
    ELSE IF outcome = "ok" THEN Reference(ImageObjectName(pid, page_num))
    ELSE ErrorMarker(outcome)

RECURSIVE ImageList(_, _, _, _, _)
\* images after the loop body ran for the first `count` pages.
ImageList(doc_pages, pid, deliver, outcomes, count) ==
    IF count = 0 THEN <<>>
    ELSE AppendImage(ImageList(doc_pages, pid, deliver, outcomes, count - 1),
                     ImageEntry(count - 1, doc_pages[count], pid, deliver, outcomes[count]))

RECURSIVE ImageUploads(_, _, _, _, _)
\* The bucket after the uploads of the first `count` pages.
ImageUploads(objects, doc_pages, pid, outcomes, count) ==
    IF count = 0 THEN objects
    ELSE LET before == ImageUploads(objects, doc_pages, pid, outcomes, count - 1)
         IN  IF outcomes[count] = "ok"
             THEN PutObject(before, ImageObjectName(pid, count - 1), PngBytes(doc_pages[count]))
             ELSE before

\* _generate_image_output, when "img" is requested: page after page a PNG
\* file is written, delivered and unlinked.  `count` pages run to the end of
\* the loop body; if that is not all of them, the engine raised on the next
\* page, in get_pixmap (no file yet) or in pix.save (the file exists).
GenerateImageOutput ==
    /\ pc = "img"
    /\ IF ~Requested("img")
       THEN /\ pc' = "md"
            /\ UNCHANGED <<result, acquired, released, release_log, store, uploads>>
       ELSE \E count \in 0..Len(pages), file_made \in BOOLEAN :
            \E outcomes \in [1..count ->
                               IF result_deliver = "url" THEN UploadOutcomes ELSE {"ok"}] :
              LET done == {ResImage(n - 1) : n \in 1..count}
                  raised == count < Len(pages)
              IN  /\ raised \/ ~file_made
                  /\ acquired' = Bump(acquired, done \cup
                                        (IF raised /\ file_made THEN {ResImage(count)} ELSE {}))
                  /\ released' = Bump(released, done)
                  /\ release_log' = release_log \o [n \in 1..count |-> ResImage(n - 1)]
                  /\ store' = IF result_deliver = "url"
                              THEN ImageUploads(store, pages, process_id, outcomes, count)
                              ELSE store
                  /\ uploads' = IF result_deliver = "url"
                                THEN [uploads EXCEPT !.img = outcomes]
                                ELSE uploads
                  /\ IF raised
                     THEN /\ result' \in {ErrorDict(cause) : cause \in ServiceExceptions}
                          /\ pc' = "cleanup"
                     ELSE /\ result' = DictUpdate(result,
                                "img" :> ImageList(pages, process_id, result_deliver,
                                                   outcomes, count))
                          /\ pc' = "md"
    /\ UNCHANGED <<request_vars, text_vars, redact_vars, worker_vars, reads,
                   process_id, doc, temp_file, pages, expanded,
                   marks, response, md_content>>

\* _generate_markdown_output, when "md" is requested.  get_text may raise.  In
\* url mode the temporary .md file is created after the bucket was ensured
\* and is unlinked only behind a put_object that did not raise.
GenerateMarkdownOutput ==
    /\ pc = "md"
    /\ pc' = "cleanup"
    /\ IF ~Requested("md")
       THEN UNCHANGED <<result, acquired, released, release_log, store, uploads, md_content>>
       ELSE \E extracted \in BOOLEAN, outcome \in UploadOutcomes :
              IF ~extracted
              THEN /\ outcome = "ok"
                   /\ result' \in {ErrorDict(cause) : cause \in ServiceExceptions}
                   /\ UNCHANGED <<acquired, released, release_log, store, uploads, md_content>>
              ELSE /\ md_content' = MarkdownContent(pages, sensitive_content)
                   /\ IF result_deliver = "response"
                      THEN /\ outcome = "ok"
                           /\ result' = DictUpdate(result, "md" :> MdText(Untag(md_content')))
                           /\ UNCHANGED <<acquired, released, release_log, store, uploads>>
                      ELSE /\ uploads' = [uploads EXCEPT !.md = Append(@, outcome)]
                           /\ acquired' = Bump(acquired, IF outcome = "bucket_error"
                                                         THEN {} ELSE {ResTempMd})
                           /\ released' = Bump(released, IF outcome = "ok"
                                                         THEN {ResTempMd} ELSE {})
                           /\ release_log' = IF outcome = "ok"
                                             THEN Append(release_log, ResTempMd)
                                             ELSE release_log
                           /\ IF outcome = "ok"
                              THEN /\ store' = PutObject(store, MdObjectName(process_id),
                                                         Untag(md_content'))
                                   /\ result' = DictUpdate(result,
                                         "md" :> Reference(MdObjectName(process_id)))
                              ELSE /\ result' = DictUpdate(result, "md" :> ErrorMarker(outcome))
                                   /\ UNCHANGED store
    /\ UNCHANGED <<request_vars, text_vars, redact_vars, worker_vars, reads,
                   process_id, doc, temp_file, pages, expanded,
                   marks, response>>

-----------------------------------------------------------------------------
(* ResourceLifecycleManager: anonymize_service.py:68-70 and 411-423 *)

\* The resources _cleanup_resources releases, in its order: the handle is
\* closed if doc is a document, then the staged file is unlinked if temp_file
\* names an existing file.
CleanupOrder ==
    (IF doc = "open" THEN <<ResDoc>> ELSE <<>>)
    \o (IF temp_file # "None" /\ acquired[ResInput] > released[ResInput]
        THEN <<ResInput>> ELSE <<>>)

\* The finally block of anonymize_pdf: the first `count` releases are made;
\* if that is not all of them, the next one (doc.close() or os.unlink) raised
\* and the exception leaves anonymize_pdf in place of its return value.
CleanupResources ==
    /\ pc = "cleanup"
    /\ \E count \in 0..Len(CleanupOrder) :
          LET made == SubSeq(CleanupOrder, 1, count)
          IN  /\ released' = Bump(released, Range(made))
              /\ release_log' = release_log \o made
              /\ doc' = IF ResDoc \in Range(made) THEN "closed" ELSE doc
              /\ result' = IF count = Len(CleanupOrder) THEN result
                            ELSE Raised("unexpected error")
    /\ pc' = "respond"
    /\ UNCHANGED <<request_vars, text_vars, redact_vars, worker_vars, reads,
                   process_id, temp_file, pages, expanded, marks,
                   acquired, store, uploads, response, md_content>>

-----------------------------------------------------------------------------
(* The endpoint's answer: app.py:56-67 *)

\* result after lines 56-62: the caller's process_id if it gave one, else the
\* default of the service's process_id parameter.
WithProcessId(res) ==
    IF req_process_id # "None"
    THEN ("process_id" :> req_process_id) @@ res
    ELSE IF "process_id" \notin DOMAIN res
    THEN ("process_id" :> AnonymizePdfDefaults[Len(AnonymizePdfDefaults)]) @@ res
    ELSE res

\* anonymize_pdf_endpoint behind the call of the service: an exception is
\* answered 500 by the except clause, a result holding "error" 400, any
\* other result 200.
EndpointRespond ==
    /\ pc = "respond"
    /\ response' = IF "raised" \in DOMAIN result
                   THEN [status |-> 500, body |-> ErrorDict(result["raised"])]
                   ELSE IF "error" \in DOMAIN result
                   THEN [status |-> 400, body |-> ErrorDict(result["error"])]
                   ELSE [status |-> 200, body |-> WithProcessId(result)]
    /\ pc' = "done"
    /\ UNCHANGED <<request_vars, text_vars, redact_vars, worker_vars, reads,
                   process_id, doc, temp_file, pages, expanded,
                   marks, result, acquired, released, release_log, store, uploads,
                   md_content>>

Next ==
    \/ EndpointValidate
    \/ LoadPdfDocument
    \/ AnonymizeDocument
    \/ GeneratePdfOutput
    \/ GenerateImageOutput
    \/ GenerateMarkdownOutput
    \/ CleanupResources
    \/ EndpointRespond

Spec == Init /\ [][Next]_vars

-----------------------------------------------------------------------------
(* Properties of a request *)

Finished == pc = "done"

Succeeded == Finished /\ response.status = 200

\* Whether every upload the producer of fmt makes was attempted.
AllUploadsTried(fmt) ==
    Len(uploads[fmt]) = IF fmt = "img" THEN Len(source_pages) ELSE 1

UploadFailed(fmt) == \E i \in DOMAIN uploads[fmt] : uploads[fmt][i] # "ok"

UploadsSucceeded(fmt) == \A i \in DOMAIN uploads[fmt] : uploads[fmt][i] = "ok"

\* Whether the body's entry of fmt carries an error marker.
HasErrorMarker(body, fmt) ==
    /\ fmt \in DOMAIN body
    /\ IF fmt = "img"
       THEN \E i \in DOMAIN body[fmt] : body[fmt][i].kind = "error"
       ELSE body[fmt].kind = "error"

\* Whether the body's entry of fmt holds the reference of every artifact of
\* fmt, each designating an object of the bucket.
HasValidReference(body, fmt) ==
    /\ fmt \in DOMAIN body
    /\ CASE fmt = "pdf" -> /\ body[fmt] = Reference(PdfObjectName(process_id))
                           /\ PdfObjectName(process_id) \in DOMAIN store
         [] fmt = "md"  -> /\ body[fmt] = Reference(MdObjectName(process_id))
                           /\ MdObjectName(process_id) \in DOMAIN store
         [] OTHER -> /\ Len(body[fmt]) = Len(source_pages)
                     /\ \A i \in DOMAIN body[fmt] :
                           /\ body[fmt][i] = Reference(ImageObjectName(process_id, i - 1))
                           /\ ImageObjectName(process_id, i - 1) \in DOMAIN store

\* C1: in url mode, when the upload of one requested format fails and the
\* uploads of all other requested formats succeed, the answer is 200, the
\* failed format's entry carries an error marker and every other requested
\* format's entry is its valid storage reference.
C1_PartialSuccess ==
    (Finished /\ result_deliver = "url"
       /\ \A f \in Formats : Requested(f) => AllUploadsTried(f))
    => \A f \in Formats :
          (/\ Requested(f)
           /\ UploadFailed(f)
           /\ \A g \in Formats \ {f} : Requested(g) => UploadsSucceeded(g))
          => /\ response.status = 200
             /\ HasErrorMarker(response.body, f)
             /\ \A g \in Formats \ {f} : Requested(g) => HasValidReference(response.body, g)

\* C2: when anonymize_pdf has returned, every temporary resource and the
\* document handle were released exactly as often as they were created (each
\* once), whichever way the request went.
C2_ReleasedExactlyOnce ==
    pc \in {"respond", "done"}
    => \A r \in Resources : acquired[r] <= 1 /\ released[r] = acquired[r]

\* C3: a request answered with an error leaves no object under its
\* process_id in the bucket.
C3_NoObjectsOnFailure ==
    (Finished /\ "error" \in DOMAIN response.body)
    => \A name \in DOMAIN store : name[1] # process_id

\* The Markdown text in which every occurrence of a sensitive term in the
\* document's page text stands as the marker, the rest of the text kept.
ExpectedMarkdown == Untag(MarkdownContent(source_pages, sensitive_content))

\* C5: the Markdown output shows the marker at every occurrence of a
\* sensitive term in the page text and keeps the surrounding text, whatever
\* the visual redaction did to the handle before.
C5_MarkdownShowsMarker ==
    (Succeeded /\ Requested("md") /\ result_deliver = "response")
    => response.body["md"] = MdText(ExpectedMarkdown)

\* The PDF the request delivered: inline, or the object written to the bucket.
DeliveredPdf ==
    IF result_deliver = "response" THEN response.body["pdf"].data
    ELSE store[PdfObjectName(process_id)]

\* Whether `text` holds a case-insensitive occurrence of `word`.
OccursIn(word, text) == \E i \in 1..Len(text) : MatchAt(text, word, i, "ignorecase")

\* C6: the text extracted from every page of the serialized PDF contains no
\* case-insensitive match of any pattern of the expanded set.
C6_PdfTextHasNoMatch ==
    (Succeeded /\ Requested("pdf"))
    => \A n \in DOMAIN DeliveredPdf.pages, k \in DOMAIN expanded :
          ~OccursIn(expanded[k], GetText(DeliveredPdf.pages[n]))

\* Whether element n of the img entry is the artifact of page n (counted
\* from 1): its rendering inline, the reference of its object, or the error
\* of its upload.
BelongsToPage(entry, n) ==
    CASE entry.kind = "b64" -> entry = B64(PngBytes(pages[n]))
      [] entry.kind = "ref" ->
            /\ entry = Reference(ImageObjectName(process_id, n - 1))
            /\ uploads.img[n] = "ok"
            /\ ImageObjectName(process_id, n - 1) \in DOMAIN store
            /\ store[ImageObjectName(process_id, n - 1)] = PngBytes(pages[n])
      [] OTHER -> uploads.img[n] # "ok" /\ entry = ErrorMarker(uploads.img[n])

\* C9: when "img" is requested and the request succeeds, the img entry has
\* exactly one element per page and element n belongs to page n, in both
\* delivery modes, for every order and multiplicity of the formats, also when
\* the upload of a page failed.
C9_OneImagePerPageInOrder ==
    (Succeeded /\ Requested("img"))
    => /\ "img" \in DOMAIN response.body
       /\ Len(response.body["img"]) = Len(source_pages)
       /\ \A n \in DOMAIN response.body["img"] : BelongsToPage(response.body["img"][n], n)

\* A successful two-page request for images in url mode, "img" listed after
\* "md", the upload of the first page failed and the second written.
C9_Witness ==
    /\ Succeeded
    /\ output_format = <<"md", "img">>
    /\ result_deliver = "url"
    /\ Len(source_pages) = 2
    /\ uploads.img = <<"put_error", "ok">>
    /\ response.body["img"][2] = Reference(ImageObjectName(process_id, 1))

\* C10: the process_id is fixed for the request: the value the service uses
\* (the caller's, or the one generated once) prefixes every key written and
\* is the process_id of the successful response.
C10_ProcessIdFixed ==
    Succeeded
    => /\ response.body["process_id"] = process_id
       /\ req_process_id # "None" => process_id = req_process_id
       /\ \A name \in DOMAIN store : name[1] = process_id

\* The messages of the failures of input resolution.
AcquisitionMessages ==
    {"Invalid base64", "Failed to open PDF document",
     "Either pdf_content or pdf_file must be provided", "Invalid MinIO object path",
     "Error retrieving PDF from MinIO", "Failed to download PDF from URL",
     "Error downloading PDF"}

\* Whether something other than a validation, acquisition, engine or delivery
\* failure happened to the request: an exception left the service, or the
\* service caught an exception that is not the engine's.
UnexpectedFailure ==
    \/ "raised" \in DOMAIN result
    \/ "error" \in DOMAIN result /\ result["error"] = "unexpected error"

\* The status the kind of outcome of a finished request asks for.
StatusOfOutcome ==
    IF ValidationError # "ok" THEN 400
    ELSE IF UnexpectedFailure THEN 500
    ELSE IF "error" \in DOMAIN result
            /\ result["error"] \in AcquisitionMessages \cup {"engine error"} THEN 400
    ELSE 200

\* C11: the status of the answer is decided by the kind of outcome: 400 for
\* a validation, acquisition or engine failure, 500 for an unexpected failure
\* (also one raised inside the service), 200 for success and for delivery
\* failures.
C11_StatusByOutcome == Finished => response.status = StatusOfOutcome

\* How many of pdf_content and pdf_file the request populates.
SourcesPopulated ==
    (IF pdf_content # "None" THEN 1 ELSE 0) + (IF pdf_file # "None" THEN 1 ELSE 0)

\* C12: a request at input resolution populates exactly one input source; a
\* request with neither is answered 400 with the message of the missing
\* input, and a request with both is rejected as well, never processed.
C12_ExactlyOneSource ==
    /\ pc = "load" => SourcesPopulated = 1
    /\ (Finished /\ SourcesPopulated = 0)
       => /\ response.status = 400
          /\ response.body = ErrorDict("Either pdf_content or pdf_file must be provided")
    /\ (Finished /\ SourcesPopulated = 2)
       => /\ response.status = 400
          /\ acquired[ResInput] = 0

\* The reference of a key: the container name joined to the key.
KeyReference(key) == [kind |-> "ref", path |-> <<"anonymized-pdfs", "/">> \o key]

\* C13: in url mode every object is written under {process_id}/result.pdf,
\* {process_id}/result.md or {process_id}/result_page_{n}.png for a page index
\* n, each artifact under its own key, and the entry returned for a written
\* artifact is the container name joined to that key, never the payload.
C13_DeterministicKeys ==
    result_deliver = "url"
    => LET pdf_key == <<process_id, "/", "result.pdf">>
           md_key == <<process_id, "/", "result.md">>
           img_key(n) == <<process_id, "/", "result_page_", ToString(n), ".png">>
       IN  /\ DOMAIN store \subseteq
                 {pdf_key, md_key} \cup {img_key(n) : n \in 0..(Len(pages) - 1)}
           /\ uploads.pdf = <<"ok">>
              => /\ pdf_key \in DOMAIN store /\ store[pdf_key] = PdfBytes(pages)
                 /\ DOMAIN result \cap {"error", "raised"} = {} => result["pdf"] = KeyReference(pdf_key)
           /\ uploads.md = <<"ok">>
              => /\ md_key \in DOMAIN store /\ store[md_key] = Untag(md_content)
                 /\ DOMAIN result \cap {"error", "raised"} = {} => result["md"] = KeyReference(md_key)
           /\ \A n \in DOMAIN uploads.img :
                 uploads.img[n] = "ok"
                 => /\ img_key(n - 1) \in DOMAIN store
                    /\ store[img_key(n - 1)] = PngBytes(pages[n])
                    /\ "img" \in DOMAIN result
                       => result["img"][n] = KeyReference(img_key(n - 1))
           /\ \A f \in {"pdf", "md"} : f \in DOMAIN result => result[f].kind \in {"ref", "error"}
           /\ "img" \in DOMAIN result
              => \A n \in DOMAIN result["img"] : result["img"][n].kind \in {"ref", "error"}

\* A two-page request for the PDF and the images in url mode, every upload made:
\* the second image is returned as the reference of result_page_1.png.
C13_Witness ==
    /\ Succeeded
    /\ result_deliver = "url"
    /\ output_format = <<"pdf", "img">>
    /\ DOMAIN store = {<<process_id, "/", "result.pdf">>,
                       <<process_id, "/", "result_page_", "0", ".png">>,
                       <<process_id, "/", "result_page_", "1", ".png">>}
    /\ response.body["img"][2] =
          KeyReference(<<process_id, "/", "result_page_", "1", ".png">>)

\* Whether input resolution has run and gave no document.
ResolutionFailed ==
    /\ pc \in {"cleanup", "respond", "done"}
    /\ ValidationError = "ok"
    /\ doc \in {"None", "error"}

\* A status code of the success class.
SuccessStatus(code) == code \in 200..299

\* C14: when input resolution fails, whatever the cause, the request ends
\* with an error result only: nothing was redacted, no producer ran, nothing
\* was written to the store and nothing but the error is answered; and the
\* content of a remote fetch that came back with a success status is staged
\* and opened.
C14_ResolutionFailureAborts ==
    /\ ResolutionFailed
       => /\ DOMAIN result = {"error"}
          /\ expanded = <<>> /\ marks = {} /\ pages = <<>>
          /\ \A f \in Formats : uploads[f] = <<>>
          /\ DOMAIN store = {}
          /\ \A r \in Resources \ {ResInput} : acquired[r] = 0
          /\ Finished => response.status = 400 /\ DOMAIN response.body = {"error"}
    /\ (/\ pc \notin {"endpoint", "load"}
        /\ pdf_content = "None" /\ pdf_file = "http"
        /\ SuccessStatus(fetch_status)
        /\ ~("error" \in DOMAIN result /\ result["error"] = "Error downloading PDF"))
       => acquired[ResInput] = 1 /\ acquired[ResDoc] = 1

\* Whether the request's input is a blob reference and was resolved.
BlobRefResolved ==
    /\ pc \notin {"endpoint", "load"}
    /\ ValidationError = "ok"
    /\ pdf_content = "None"
    /\ pdf_file \notin {"None", "http"}

\* The loader refused the reference without asking the store or staging a file.
InvalidReference ==
    /\ result = ErrorDict("Invalid MinIO object path")
    /\ reads = <<>>
    /\ acquired[ResInput] = 0

C17_HandleReleasedLast ==
    pc \in {"respond", "done"}
    => \A j \in DOMAIN release_log :
          release_log[j] = ResDoc
          => /\ j = Len(release_log)
             /\ \A r \in Resources \ {ResDoc} :
                   acquired[r] > 0 => \E i \in 1..(j - 1) : release_log[i] = r

-----------------------------------------------------------------------------
(* The expansion as a function of the term list: every list of up to       *)
(* MaxTerms terms of up to MaxTermLen code points is expanded.             *)

\* An ASCII letter, a cased letter above ASCII, the caseless euro sign, and
\* sharp s, whose upper case has two code points.
ExpandChars == {"E", "OMEGA", "euro", "eszett"}

\* The request of a specification that only applies a text function.
InitNoRequest ==
    /\ pdf_content = "None"
    /\ pdf_file = "None"
    /\ output_format = <<"pdf">>
    /\ result_deliver = "response"
    /\ req_process_id = "None"
    /\ fetch_status = 200
    /\ engine_overlap = FALSE

InitExpand ==
    /\ \E m \in 1..MaxTerms :
          sensitive_content \in [1..m -> NonEmptySeqsUpTo(ExpandChars, MaxTermLen)]
    /\ source_pages = <<>>
    /\ InitNoRequest
    /\ pc = "expand"
    /\ InitLocals

\* expanded_sensitive_content = _expand_non_ascii_variations(sensitive_content),
\* with the list _generate_case_variations returns for each term.
ExpandTerms ==
    /\ pc = "expand"
    /\ expanded' = ExpandNonAsciiVariations(sensitive_content)
    /\ case_variations' =
          [n \in DOMAIN sensitive_content |-> GenerateCaseVariations(sensitive_content[n])]
    /\ pc' = "expanded"
    /\ UNCHANGED <<request_vars, redact_vars, worker_vars, reads,
                   process_id, doc, temp_file, pages, marks, result, acquired,
                   released, release_log, store, uploads, response, md_content>>

SpecExpand == InitExpand /\ [][ExpandTerms]_vars

\* The code points of a word above the ASCII range, counted.
VariableCount(word) == Cardinality({p \in DOMAIN word : word[p] \in NonAsciiChars})

\* The number of variable positions before position p.
Rank(word, p) == Cardinality({q \in 1..(p - 1) : word[q] \in NonAsciiChars})

AsciiOnly(word) == VariableCount(word) = 0

\* Variant i as the expansion is specified: variable position j in upper
\* case iff bit j of i is 1, in lower case otherwise, the rest copied.
SpecifiedVariant(word, i) ==
    Join([p \in DOMAIN word |->
            IF word[p] \notin NonAsciiChars THEN <<word[p]>>
            ELSE IF (i \div Pow2(Rank(word, p))) % 2 = 1 THEN StrUpper(word[p])
            ELSE StrLower(word[p])])

\* Every variable position holds a letter with two different one-code-point cases.
SimplyCased(word) ==
    \A p \in DOMAIN word :
        word[p] \in NonAsciiChars
        => /\ Len(StrUpper(word[p])) = 1
           /\ Len(StrLower(word[p])) = 1
           /\ StrUpper(word[p]) # StrLower(word[p])

NoDuplicates(list) == \A i, j \in DOMAIN list : i # j => list[i] # list[j]

\* C7 as claimed: a term with k code points above ASCII contributes exactly
\* 2^k pairwise distinct variants, each as long as the term.
C7_Original ==
    pc = "expanded"
    => \A n \in DOMAIN sensitive_content :
          LET word == sensitive_content[n]
          IN  /\ Cardinality(Range(case_variations[n])) = Pow2(VariableCount(word))
              /\ \A v \in Range(case_variations[n]) : Len(v) = Len(word)

\* C7, amended: a term with k code points above ASCII gets 2^k variants,
\* variant i with variable position j in upper case iff bit j of i is 1 and
\* the other positions copied; they are pairwise distinct and as long as the
\* term when every variable position holds a letter with two different
\* one-code-point cases; all of them are in the result, which lists nothing
\* twice however often a term is repeated.
C7_CaseVariations ==
    pc = "expanded"
    => /\ \A n \in DOMAIN sensitive_content :
             LET word == sensitive_content[n]
                 vs == case_variations[n]
             IN  /\ Len(vs) = Pow2(VariableCount(word))
                 /\ \A i \in DOMAIN vs : vs[i] = SpecifiedVariant(word, i - 1)
                 /\ SimplyCased(word)
                    => /\ \A i \in DOMAIN vs : Len(vs[i]) = Len(word)
                       /\ NoDuplicates(vs)
                 /\ Range(vs) \subseteq Range(expanded)
       /\ NoDuplicates(expanded)

\* A term with two variable positions, given twice: four variants in index
\* order, each once in the result.
C7_Witness ==
    /\ pc = "expanded"
    /\ sensitive_content = << <<"OMEGA", "OMEGA">>, <<"OMEGA", "OMEGA">> >>
    /\ case_variations[1] = << <<"omega", "omega">>, <<"OMEGA", "omega">>,
                               <<"omega", "OMEGA">>, <<"OMEGA", "OMEGA">> >>
    /\ Len(expanded) = 4

\* C8: an ASCII-only term contributes itself, unchanged, and nothing else: its
\* variation list is the term alone, everything in the result is a term of
\* the list or a variation of a term with a code point above ASCII, and a
\* list of ASCII-only terms expands to its distinct terms.
C8_AsciiTermUnchanged ==
    pc = "expanded"
    => /\ \A n \in DOMAIN sensitive_content :
             AsciiOnly(sensitive_content[n])
             => /\ case_variations[n] = <<sensitive_content[n]>>
                /\ sensitive_content[n] \in Range(expanded)
       /\ \A v \in Range(expanded) :
             \/ v \in Range(sensitive_content)
             \/ \E n \in DOMAIN sensitive_content :
                   /\ ~AsciiOnly(sensitive_content[n])
                   /\ v \in Range(case_variations[n])
       /\ (\A n \in DOMAIN sensitive_content : AsciiOnly(sensitive_content[n]))
          => /\ Range(expanded) = Range(sensitive_content)
             /\ Len(expanded) = Cardinality(Range(sensitive_content))

\* An upper-case ASCII term beside a term with a code point above ASCII: the
\* ASCII term is in the result once, in the case it was given.
C8_Witness ==
    /\ pc = "expanded"
    /\ sensitive_content = << <<"E", "E">>, <<"OMEGA">> >>
    /\ case_variations[1] = << <<"E", "E">> >>
    /\ Range(expanded) = { <<"E", "E">>, <<"OMEGA">>, <<"omega">> }
    /\ Len(expanded) = 3

-----------------------------------------------------------------------------
(* _anonymize_document run twice on one handle, as a function of the terms *)
(* and of the text of a one-page document.                                 *)

\* Term characters: a letter and the space.
RerunTermChars == {"x", " "}

RerunTextChars == {"X", "e"}

InitRerun ==
    /\ \E m \in 1..MaxTerms :
          sensitive_content \in [1..m -> NonEmptySeqsUpTo(RerunTermChars, MaxTermLen)]
    /\ source_pages \in {<<text>> : text \in SeqsUpTo(RerunTextChars, MaxTextLen)}
    /\ pdf_content = "None"
    /\ pdf_file = "None"
    /\ output_format = <<"pdf">>
    /\ result_deliver = "response"
    /\ req_process_id = "None"
    /\ fetch_status = 200
    /\ engine_overlap \in BOOLEAN
    /\ pc = "redact"
    /\ InitLocals

\* _anonymize_document(doc, sensitive_content) on the document as loaded.
FirstRun ==
    /\ pc = "redact"
    /\ expanded' = ExpandNonAsciiVariations(sensitive_content)
    /\ pages' = RedactedPages(source_pages, expanded', Len(source_pages), engine_overlap)
    /\ marks' = DocumentMarks(source_pages, expanded', Len(source_pages))
    /\ pc' = "redacted"
    /\ UNCHANGED <<request_vars, text_vars, worker_vars, reads, at_page, redact_log, rerun,
                   process_id, doc, temp_file, result, acquired, released, release_log,
                   store, uploads, response, md_content>>

\* _anonymize_document(doc, sensitive_content) once more, on the handle the
\* first run left.
SecondRun ==
    /\ pc = "redacted"
    /\ LET words == ExpandNonAsciiVariations(sensitive_content)
       IN  rerun' = [pages |-> RedactedPages(pages, words, Len(pages), engine_overlap),
                     marks |-> DocumentMarks(pages, words, Len(pages))]
    /\ pc' = "rerun"
    /\ UNCHANGED <<request_vars, text_vars, worker_vars, reads, at_page, redact_log,
                   process_id, doc, temp_file, pages, expanded, marks, result, acquired,
                   released, release_log, store, uploads, response, md_content>>

NextRerun == FirstRun \/ SecondRun

SpecRerun == InitRerun /\ [][NextRerun]_vars

-----------------------------------------------------------------------------
(* _anonymize_document step by step: anonymize_service.py:159-177.  For    *)
(* each page the loop first searches every pattern and marks its hits,     *)
(* then commits the page with apply_redactions.                            *)

\* The page texts the documents of this specification are made of.
RedactionPageTexts == {<<"x", "OMEGA", "x">>, <<"omega", "e">>, <<"e">>}

InitRedaction ==
    /\ \E kind \in SampleDocs : sensitive_content = SampleTerms(kind)
    /\ source_pages \in NonEmptySeqsUpTo(RedactionPageTexts, MaxPages)
    /\ pdf_content = "None"
    /\ pdf_file = "None"
    /\ output_format = <<"pdf">>
    /\ result_deliver = "response"
    /\ req_process_id = "None"
    /\ fetch_status = 200
    /\ engine_overlap \in BOOLEAN
    /\ pc = "begin"
    /\ InitLocals

\* An entry of the log: what was done, to which page, with which regions.
LogEntry(op, page, regions) == [op |-> op, page |-> page, regions |-> regions]

\* Line 159, and the loop's entry: the document is the one loaded.
BeginRedaction ==
    /\ pc = "begin"
    /\ expanded' = ExpandNonAsciiVariations(sensitive_content)
    /\ pages' = source_pages
    /\ at_page' = 0
    /\ pc' = "mark"
    /\ UNCHANGED <<request_vars, text_vars, worker_vars, reads, redact_log, rerun,
                   process_id, doc, temp_file, marks, result, acquired, released,
                   release_log, store, uploads, response, md_content>>

\* Lines 162-174 for the page at_page: every pattern is searched on the page,
\* every hit padded and marked.  The engine may raise instead.
MarkPage ==
    /\ pc = "mark"
    /\ \E ok \in BOOLEAN :
          IF ok
          THEN LET found == PageMarks(at_page, pages[at_page + 1], expanded)
               IN  /\ marks' = marks \cup found
                   /\ redact_log' = Append(redact_log, LogEntry("mark", at_page, found))
                   /\ pc' = "commit"
          ELSE /\ pc' = "raised"
               /\ UNCHANGED <<marks, redact_log>>
    /\ UNCHANGED <<request_vars, text_vars, worker_vars, reads, at_page, rerun,
                   process_id, doc, temp_file, pages, expanded, result, acquired, released,
                   release_log, store, uploads, response, md_content>>

\* Line 177 for the page at_page, and the loop's step to the next page or
\* its end.  The engine may raise instead.
CommitPage ==
    /\ pc = "commit"
    /\ \E ok \in BOOLEAN :
          IF ok
          THEN /\ pages' = [pages EXCEPT ![at_page + 1] =
                               ApplyRedactions(@, {m \in marks : m.page = at_page},
                                               engine_overlap)]
               /\ redact_log' = Append(redact_log, LogEntry("commit", at_page, {}))
               /\ at_page' = at_page + 1
               /\ pc' = IF at_page + 1 = Len(pages) THEN "returned" ELSE "mark"
          ELSE /\ pc' = "raised"
               /\ UNCHANGED <<pages, redact_log, at_page>>
    /\ UNCHANGED <<request_vars, text_vars, worker_vars, reads, rerun,
                   process_id, doc, temp_file, expanded, marks, result, acquired, released,
                   release_log, store, uploads, response, md_content>>

NextRedaction == BeginRedaction \/ MarkPage \/ CommitPage

SpecRedaction == InitRedaction /\ [][NextRedaction]_vars

\* The regions the loop has to mark on a page: every hit of every expanded
\* pattern, 2 units wider on each side, filled black.
RegionsToMark(page, text) ==
    {[page |-> page,
      rect |-> [x0 |-> hit.x0 - 2, y0 |-> hit.y0 - 2, x1 |-> hit.x1 + 2, y1 |-> hit.y1 + 2],
      fill |-> <<0, 0, 0>>] :
        hit \in UNION {SearchFor(text, expanded[k]) : k \in DOMAIN expanded}}

\* C18: the pages are handled in document order, each marked and then
\* committed before the next page is searched; the marks of a page are the
\* hits of every expanded pattern on it, padded by 2 units on each side and
\* filled black; and when the loop has returned every page is committed.
C18_PageByPageCommit ==
    /\ \A i \in DOMAIN redact_log :
          IF i % 2 = 1
          THEN redact_log[i] = LogEntry("mark", (i - 1) \div 2,
                                        RegionsToMark((i - 1) \div 2, source_pages[(i + 1) \div 2]))
          ELSE redact_log[i] = LogEntry("commit", (i \div 2) - 1, {})
    /\ pc = "mark" => Len(redact_log) = 2 * at_page
    /\ pc = "commit" => Len(redact_log) = 2 * at_page + 1
    /\ pc = "returned"
       => /\ Len(redact_log) = 2 * Len(source_pages)
          /\ marks = UNION {redact_log[i].regions : i \in DOMAIN redact_log}
          /\ \A m \in marks :
                \E i \in DOMAIN redact_log : redact_log[i] = LogEntry("commit", m.page, {})
          /\ pages = RedactedPages(source_pages, expanded, Len(source_pages), engine_overlap)

\* A two-page document redacted to its end: the region of the first page is
\* marked with its padding, the page committed, then the second page marked.
C18_Witness ==
    /\ pc = "returned"
    /\ sensitive_content = << <<"OMEGA">> >>
    /\ source_pages = << <<"x", "OMEGA", "x">>, <<"omega", "e">> >>
    /\ Len(redact_log) = 4
    /\ redact_log[1].regions =
          {[page |-> 0, fill |-> <<0, 0, 0>>,
            rect |-> [x0 |-> GlyphWidth - 2, y0 |-> 0 - 2,
                      x1 |-> 2 * GlyphWidth + 2, y1 |-> GlyphWidth + 2]]}
    /\ redact_log[2].op = "commit"
    /\ redact_log[3].regions # {}

-----------------------------------------------------------------------------
(* Requests running at the same time (the server runs its handlers on      *)
(* several threads), each delivering one artifact in url mode:             *)
(* anonymize_service.py:40-42 and 204-226, 314-345, and                    *)
(* minio_service.py:102-119.  The bucket and its objects are shared.       *)

Workers == 1..MaxRequests

\* str(uuid.uuid4()) in request w: no two calls give the same value.
GeneratedId(w) == "uuid-" \o ToString(w)

\* The document of request w: no two requests carry the same.
WorkerPages(w) == [n \in 1..w |-> SamplePage("omega", n)]

\* The artifact request w delivers.
WorkerArtifact(w, fmt) ==
    IF fmt = "pdf" THEN PdfBytes(WorkerPages(w))
    ELSE Untag(MarkdownContent(WorkerPages(w), <<>>))

\* object_name of the artifact.
WorkerObjectName(pid, fmt) == IF fmt = "pdf" THEN PdfObjectName(pid) ELSE MdObjectName(pid)

\* What the producer of fmt returns for a failed upload: result["error"]
\* for the PDF, an error marker under "md" for the Markdown.
UploadFailure(fmt, cause) ==
    IF fmt = "pdf" THEN ErrorDict(<<"Failed to upload PDF to storage: ", cause>>)
    ELSE "md" :> ErrorMarker(cause)

InitConcurrent ==
    /\ bucket_exists \in BOOLEAN
    /\ requests \in [Workers -> {[req_process_id |-> rp, process_id |-> "None", fmt |-> f,
                                   pc |-> "start", result |-> EmptyDict, wrote |-> {}] :
                                     rp \in {"None", "client-1"}, f \in {"pdf", "md"}}]
    /\ sensitive_content = SampleTerms("omega")
    /\ source_pages = <<>>
    /\ pdf_content = "b64"
    /\ pdf_file = "None"
    /\ output_format = <<"pdf">>
    /\ result_deliver = "url"
    /\ req_process_id = "None"
    /\ fetch_status = 200
    /\ engine_overlap = FALSE
    /\ pc = "concurrent"
    /\ process_id = "None"
    /\ doc = "None"
    /\ temp_file = "None"
    /\ pages = <<>>
    /\ expanded = <<>>
    /\ marks = {}
    /\ result = EmptyDict
    /\ acquired = [r \in Resources |-> 0]
    /\ released = [r \in Resources |-> 0]
    /\ release_log = <<>>
    /\ store = EmptyDict
    /\ uploads = [pdf |-> <<>>, img |-> <<>>, md |-> <<>>]
    /\ response = NoResponse
    /\ case_variations = <<>>
    /\ md_content = <<>>
    /\ reads = <<>>
    /\ at_page = 0
    /\ redact_log = <<>>
    /\ rerun = NoRerun

\* What a step of one request leaves alone.
shared_unchanged ==
    <<request_vars, text_vars, redact_vars, reads, pc, process_id, doc, temp_file, pages,
      expanded, marks, result, acquired, released, release_log, uploads, response,
      md_content>>

\* anonymize_pdf, lines 41-42: the process_id is the caller's, or generated.
StartRequest(w) ==
    /\ requests[w].pc = "start"
    /\ requests' = [requests EXCEPT
          ![w].process_id = IF requests[w].req_process_id = "None"
                            THEN GeneratedId(w) ELSE requests[w].req_process_id,
          ![w].pc = "check"]
    /\ UNCHANGED <<shared_unchanged, bucket_exists, store>>

\* create_bucket_if_not_exists, line 114: self.client.bucket_exists(bucket_name).
CheckBucket(w) ==
    /\ requests[w].pc = "check"
    /\ requests' = [requests EXCEPT ![w].pc = IF bucket_exists THEN "put" ELSE "make"]
    /\ UNCHANGED <<shared_unchanged, bucket_exists, store>>

\* create_bucket_if_not_exists, lines 115-119: make_bucket creates the bucket,
\* or the store refuses because the bucket exists by now: the S3Error is
\* raised on as an Exception, which the producer reports as a failed upload.
MakeBucket(w) ==
    /\ requests[w].pc = "make"
    /\ IF bucket_exists
       THEN /\ requests' = [requests EXCEPT
                  ![w].result = UploadFailure(requests[w].fmt, "bucket_error"),
                  ![w].pc = "done"]
            /\ UNCHANGED bucket_exists
       ELSE /\ bucket_exists' = TRUE
            /\ requests' = [requests EXCEPT ![w].pc = "put"]
    /\ UNCHANGED <<shared_unchanged, store>>

\* put_object and the entry the producer returns: the reference of the
\* object, or the report of the failed upload.
PutArtifact(w) ==
    /\ requests[w].pc = "put"
    /\ LET name == WorkerObjectName(requests[w].process_id, requests[w].fmt)
       IN  \E ok \in BOOLEAN :
             IF ok
             THEN /\ store' = PutObject(store, name, WorkerArtifact(w, requests[w].fmt))
                  /\ requests' = [requests EXCEPT
                        ![w].result = requests[w].fmt :> Reference(name),
                        ![w].wrote = @ \cup {name},
                        ![w].pc = "done"]
             ELSE /\ requests' = [requests EXCEPT
                        ![w].result = UploadFailure(requests[w].fmt, "put_error"),
                        ![w].pc = "done"]
                  /\ UNCHANGED store
    /\ UNCHANGED <<shared_unchanged, bucket_exists>>

NextConcurrent ==
    \E w \in Workers :
        \/ StartRequest(w)
        \/ CheckBucket(w)
        \/ MakeBucket(w)
        \/ PutArtifact(w)

SpecConcurrent == InitConcurrent /\ [][NextConcurrent]_vars

\* Whether request w reports that ensuring the bucket failed.
ReportsBucketFailure(w) ==
    requests[w].result = UploadFailure(requests[w].fmt, "bucket_error")

\* C19: ensuring the bucket never fails and leaves the bucket existing,
\* whether it was absent or present and whoever else ensures it at the same
\* time: no request reports an upload failed because of the bucket, and a
\* request behind the step finds the bucket existing.
C19_EnsureBucketIdempotent ==
    \A w \in Workers :
        /\ ~ReportsBucketFailure(w)
        /\ requests[w].pc \in {"put", "done"} => bucket_exists

\* C20: requests running at the same time write disjoint sets of keys, and
\* the reference returned to a request designates an object that holds that
\* request's own artifact.
C20_DisjointKeys ==
    /\ \A w, v \in Workers : w # v => requests[w].wrote \cap requests[v].wrote = {}
    /\ \A w \in Workers :
          LET f == requests[w].fmt
              name == WorkerObjectName(requests[w].process_id, f)
          IN  (requests[w].pc = "done" /\ requests[w].result = (f :> Reference(name)))
              => name \in DOMAIN store /\ store[name] = WorkerArtifact(w, f)

-----------------------------------------------------------------------------
(* The Markdown text pass as a function of terms and page text. *)

MdTermChars == {"e", "x", "]"}

MdTextChars == {"E", "x"}

InitMarkdown ==
    /\ \E m \in 1..MaxTerms :
          sensitive_content \in [1..m -> NonEmptySeqsUpTo(MdTermChars, MaxTermLen)]
    /\ source_pages \in {<<text>> : text \in SeqsUpTo(MdTextChars, MaxTextLen)}
    /\ InitNoRequest
    /\ pc = "markdown"
    /\ InitLocals

\* The loop of _generate_markdown_output over the pages of a document.
RedactMarkdown ==
    /\ pc = "markdown"
    /\ md_content' = MarkdownContent(source_pages, sensitive_content)
    /\ pc' = "markdown_done"
    /\ UNCHANGED <<request_vars, text_vars, redact_vars, worker_vars, reads,
                   process_id, doc, temp_file, pages, expanded,
                   marks, result, acquired, released, release_log, store, uploads,
                   response>>

SpecMarkdown == InitMarkdown /\ [][RedactMarkdown]_vars

\* C4 as claimed: the Markdown output holds no case-insensitive occurrence
\* of any sensitive term.
C4_Original ==
    pc = "markdown_done"
    => \A n \in DOMAIN sensitive_content :
          ~OccursIn(sensitive_content[n], Untag(md_content))

\* C4, amended: no case-insensitive occurrence of a sensitive term in the
\* Markdown output is made of page text alone; every occurrence left involves
\* a character of an inserted marker or of a page heading.
C4_NoTermInPageText ==
    pc = "markdown_done"
    => \A n \in DOMAIN sensitive_content, i \in DOMAIN md_content :
          MatchAt(Untag(md_content), sensitive_content[n], i, "ignorecase")
          => \E k \in 0..(Len(sensitive_content[n]) - 1) : md_content[i + k].o # "text"

\* Overlapping terms on a text that holds both, in another case: the first
\* term is replaced by the marker and the second no longer matches.
C4_Witness ==
    /\ pc = "markdown_done"
    /\ sensitive_content = << <<"x">>, <<"x", "e">> >>
    /\ source_pages = << <<"x", "E">> >>
    /\ Untag(md_content) = PageHeading(0) \o Marker \o <<"E", "\n", "\n">>

====
